---------------------------- MODULE Spec2Model ----------------------------
(***************************************************************************)
(* Knuth-Morris-Pratt matching as implemented in kmp.h: the failure table  *)
(* (kmp_failure), the batch matcher (kmp_match) and the streaming matcher  *)
(* (kmp_build, kmp_stream, kmp_free).                                      *)
(*                                                                         *)
(* One sequential caller is modelled.  It owns a pattern P, a text T and   *)
(* an output buffer of the documented size n - m + 1, runs                 *)
(* kmp_match(T, n, P, m, output), then kmp_build(P, m), then               *)
(* kmp_stream(state, T[pos], pos) for pos = 0 .. n-1, then kmp_free.       *)
(* Every C array keeps its 0-based indices: an array of length k is a      *)
(* function with domain 0 .. k-1.  The locals i and j of the four C        *)
(* functions are never live at the same time and share the variables i, j. *)
(*                                                                         *)
(* A memory access outside a live block, through a null pointer or of an   *)
(* entry never written is undefined behaviour: the step either kills the   *)
(* process (pc = "crashed") or goes on, a read yielding any value and a    *)
(* write being lost.  Every step records its accesses in acc.              *)
(***************************************************************************)
EXTENDS Integers, Sequences, FiniteSets

\* Bounds of the model: the longest pattern and the longest text enumerated,
\* and the longest buffer enumerated where undefined behaviour is explored.
MaxM == 4
MaxN == 7
MaxUB == 3

\* The symbols of a char buffer: 'a' and 'b' (two symbols exercise every
\* branch of KMP).
Sigma == {97, 98}

\* The content of malloc'ed memory that was never written.
Undef == -99

VARIABLES
    pc,        \* position of the caller / of the running C function
    caller,    \* which function called kmp_failure
    P,         \* the caller's pattern buffer, char P[m]
    T,         \* the caller's text buffer, char T[n]
    mayFail,   \* whether the allocator may return NULL
    heap,      \* status of every memory block
    failure,   \* kmp_match's local failure table
    output,    \* the caller's output buffer
    matches,   \* kmp_match's match counter
    returned,  \* the value kmp_match returned (Undef before it returns)
    i,         \* the local i of the running function
    j,         \* the local j of the running function
    state,     \* the fields of *state, by field offset
    sP,        \* the block state->P points to
    sfailure,  \* the block state->failure points to
    pos,       \* the caller's position counter passed to kmp_stream
    rets,      \* the return values of the kmp_stream calls so far
    acc,       \* the memory accesses of the last step
    P0,        \* the pattern as the caller passed it (never changes)
    fb,        \* fallback iterations of the running scan so far
    fbCall     \* fallback iterations of the running call or outer iteration

vars == <<pc, caller, P, T, mayFail, heap, failure, output, matches, returned,
          i, j, state, sP, sfailure, pos, rets, acc, P0, fb, fbCall>>

----------------------------------------------------------------------------
\* Buffers and inputs

\* A char buffer holding the string s.
Str(s) == [k \in 0..(Len(s) - 1) |-> s[k + 1]]

\* All char buffers of length at most len.
Buffers(len) == UNION {[0..(k - 1) -> Sigma] : k \in 0..len}

\* The two overlap examples of the specification: "aaa" in "aaaaaa" and
\* "abab" in "abababab".
Examples ==
    { <<Str(<<97, 97, 97>>), Str(<<97, 97, 97, 97, 97, 97>>)>>,
      <<Str(<<97, 98, 97, 98>>), Str(<<97, 98, 97, 98, 97, 98, 97, 98>>)>> }

\* The (pattern, text) pairs the caller may hold: a pattern of length
\* m >= 1, ...
Inputs ==
    ((Buffers(MaxM) \ Buffers(0)) \X Buffers(MaxN)) \cup Examples

\* ... or, where undefined behaviour is explored, short buffers: with a
\* pattern of length m >= 0, ...
InputsSmall == Buffers(MaxUB) \X Buffers(MaxUB)

\* ... and with a pattern of length m >= 1 against an allocator that may
\* fail.
InputsOOM == (Buffers(MaxUB) \ Buffers(0)) \X Buffers(MaxUB)

\* ... and with a pattern of length m >= 1 that the caller overwrites after
\* kmp_build.
InputsMutate == (Buffers(MaxUB) \ Buffers(0)) \X Buffers(MaxUB + 1)

Size(buf) == Cardinality(DOMAIN buf)

\* int m, int n: the lengths the caller passes.
m == Size(P)
n == Size(T)

\* A fresh block of len entries, nothing written yet.
Fresh(len) == [k \in 0..(len - 1) |-> Undef]

\* What a read of invalid memory may yield.
GarbageChar == Sigma
GarbageInt == (-1)..(MaxUB - 1)

----------------------------------------------------------------------------
\* Memory

Blocks == {"P", "T", "output", "failure", "state", "sP", "sfailure"}

\* The status that decides an access to block b: state->P and state->failure
\* are reached through the state record.
Reach(b) ==
    IF b \in {"sP", "sfailure"} /\ heap["state"] # "live"
    THEN heap["state"] ELSE heap[b]

\* The outcome class of an access of kind "r" or "w" to arr[k] in block b.
Status(b, arr, k, kind) ==
    IF Reach(b) # "live" THEN Reach(b)
    ELSE IF k \notin DOMAIN arr THEN "bounds"
    ELSE IF kind = "r" /\ arr[k] = Undef THEN "uninit"
    ELSE "ok"

Access(b, arr, k, kind) ==
    [obj |-> b, idx |-> k, kind |-> kind, st |-> Status(b, arr, k, kind)]

\* The values a read of arr[k] may yield.
Rd(b, arr, k, garbage) ==
    IF Status(b, arr, k, "r") = "ok" THEN {arr[k]} ELSE garbage

\* The block after the write arr[k] = v.
Wr(b, arr, k, v) ==
    IF Status(b, arr, k, "w") = "ok" THEN [arr EXCEPT ![k] = v] ELSE arr

Bad(accs) == \E a \in accs : a.st # "ok"

\* A ghost counter one higher.  It stops at CountCap, which no scan without
\* undefined behaviour reaches, and it is kept only in the runs whose
\* allocator cannot fail: the counters serve the claims about those runs.
CountCap == MaxN + 3
Count(c) == IF mayFail \/ c >= CountCap THEN c ELSE c + 1

\* malloc: a live block, or NULL when the allocator may fail.
MallocResults == IF mayFail THEN {"live", "null"} ELSE {"live"}

\* free(p): free(NULL) does nothing, a live block is released, and any
\* other pointer (a block already released, a pointer read from invalid
\* memory) is an invalid free.
Freed(st) ==
    IF st = "null" THEN "null" ELSE IF st = "live" THEN "freed" ELSE "badfree"

----------------------------------------------------------------------------
\* struct kmp_state_t: the offsets of its fields in the state record

FieldP == 0
FieldM == 1
FieldI == 2
FieldFailure == 3

Fields == {FieldP, FieldM, FieldI, FieldFailure}

\* The value a pointer field holds once it was assigned.
Assigned == 1

\* What a read of an invalid int m may yield.
GarbageLen == 0..MaxUB

----------------------------------------------------------------------------
\* The transition rules of the three loops, one operator per C expression

\* A fallback loop that stops at i = 0 instead of i = -1.
FailureMismatchSentinel(ii, p, c) == ii > 0 /\ p # c

\* kmp_failure, line 29: the condition of the fallback loop.
FailureMismatch(ii, p, c) == ii > -1 /\ p # c

\* kmp_failure, line 29: the body of the fallback loop, i = failure[i],
\* link being the entry read.
FailureLink(link) == link

\* kmp_failure, line 30: if (P[i + 1] == P[j]) i++.
FailureAdvance(ii, p, c) == IF p = c THEN ii + 1 ELSE ii

\* kmp_match, line 57: the condition of the fallback loop.
MatchMismatch(ii, p, c) == ii > -1 /\ p # c

\* The entry taken for a prefix length instead of an index.
MatchLinkLength(link) == link + 1

\* kmp_match, line 57: the body of the fallback loop, i = failure[i], link
\* being the entry read.
MatchLink(link) == link

\* kmp_match, line 58: if (P[i + 1] == T[j]) i++.
MatchAdvance(ii, p, c) == IF p = c THEN ii + 1 ELSE ii

\* A match declared one symbol early.
MatchFoundShort(ii, mm) == ii = mm - 2

\* kmp_match, line 59: if (i == m - 1).
MatchFound(ii, mm) == ii = mm - 1

\* The end position stored instead of the start offset.
MatchOffsetEnd(jj, mm) == jj

\* kmp_match, line 60: the offset stored, j - m + 1.
MatchOffset(jj, mm) == jj - mm + 1

\* A scan restarted from scratch after a match.
MatchResumeRestart(link) == -1

\* kmp_match, line 61: i = failure[i], link being the entry read.
MatchResume(link) == link

\* A fallback loop without the guard i > -1.
StreamMismatchUnguarded(ii, p, c) == p # c

\* kmp_stream, line 125: the condition of the fallback loop.
StreamMismatch(ii, p, c) == ii > -1 /\ p # c

\* The entry taken for a prefix length instead of an index.
StreamLinkLength(link) == link + 1

\* kmp_stream, line 125: the body of the fallback loop, i = failure[i],
\* link being the entry read.
StreamLink(link) == link

\* kmp_stream, line 126: if (P[i + 1] == T_j) i++.
StreamAdvance(ii, p, c) == IF p = c THEN ii + 1 ELSE ii

\* A comparison against m instead of m - 1.
StreamFoundLate(ii, mm) == ii = mm

\* kmp_stream, line 127: if (i == state->m - 1).
StreamFound(ii, mm) == ii = mm - 1

\* A flag returned instead of the position.
StreamResultFlag(jj) == 1

\* kmp_stream, line 128: result = j.
StreamResult(jj) == jj

\* A stream restarted from scratch after a match.
StreamResumeRestart(link) == -1

\* kmp_stream, line 129: i = failure[i], link being the entry read.
StreamResume(link) == link

----------------------------------------------------------------------------
\* Initial states

InitRest ==
    /\ pc = "match53"
    /\ caller = "none"
    /\ heap = [b \in Blocks |->
                 IF b \in {"P", "T", "output"} THEN "live" ELSE "none"]
    /\ failure = Fresh(0)
    /\ output = Fresh(Size(T) - Size(P) + 1)
    /\ matches = 0
    /\ returned = Undef
    /\ i = -1
    /\ j = 0
    /\ state = [k \in Fields |-> Undef]
    /\ sP = Fresh(0)
    /\ sfailure = Fresh(0)
    /\ pos = 0
    /\ rets = << >>
    /\ acc = {}
    /\ P0 = P
    /\ fb = 0
    /\ fbCall = 0

\* A pattern of length m >= 1; the allocator always succeeds.
Init ==
    /\ \E inp \in Inputs : P = inp[1] /\ T = inp[2]
    /\ mayFail = FALSE
    /\ InitRest

\* A pattern of length m >= 0; the allocator always succeeds.
InitSmall ==
    /\ \E inp \in InputsSmall : P = inp[1] /\ T = inp[2]
    /\ mayFail = FALSE
    /\ InitRest

\* A pattern of length m >= 1; the allocator may return NULL.
InitOOM ==
    /\ \E inp \in InputsOOM : P = inp[1] /\ T = inp[2]
    /\ mayFail = TRUE
    /\ InitRest

\* A pattern of length m >= 1 that the caller later overwrites; the
\* allocator always succeeds.
InitMutate ==
    /\ \E inp \in InputsMutate : P = inp[1] /\ T = inp[2]
    /\ mayFail = FALSE
    /\ InitRest

----------------------------------------------------------------------------
\* Undefined behaviour that kills the process: nothing else changes.

Crashed(accs) ==
    /\ Bad(accs)
    /\ pc' = "crashed"
    /\ UNCHANGED <<caller, P, P0, T, mayFail, heap, failure, output, matches,
                   returned, i, j, state, sP, sfailure, pos, rets, fb,
                   fbCall>>

----------------------------------------------------------------------------
\* kmp_failure(P, m, failure), called by kmp_match and by kmp_build

\* The table kmp_failure was handed.
TabName == IF caller = "kmp_match" THEN "failure" ELSE "sfailure"
Tab == IF caller = "kmp_match" THEN failure ELSE sfailure

SetTab(new) ==
    IF caller = "kmp_match"
    THEN failure' = new /\ UNCHANGED sfailure
    ELSE sfailure' = new /\ UNCHANGED failure

\* Lines 26-28: i = -1; failure[0] = -1; j = 1.
KmpFailureInit ==
    /\ pc = "fail26"
    /\ LET accs == {Access(TabName, Tab, 0, "w")} IN
       /\ acc' = accs
       /\ \/ /\ i' = -1
             /\ j' = 1
             /\ SetTab(Wr(TabName, Tab, 0, -1))
             /\ pc' = "fail28"
             /\ fb' = 0
             /\ fbCall' = 0
             /\ UNCHANGED <<caller, P, P0, T, mayFail, heap, output, matches,
                            returned, state, sP, pos, rets>>
          \/ Crashed(accs)

\* Line 29, one iteration of the fallback loop: i = failure[i].
KmpFailureFallback ==
    /\ pc = "fail28"
    /\ j < m
    /\ \E p \in Rd("P", P, i + 1, GarbageChar),
          f \in Rd(TabName, Tab, i, GarbageInt) :
        /\ FailureMismatch(i, p, P[j])
        /\ LET accs == {Access("P", P, i + 1, "r"), Access("P", P, j, "r"),
                        Access(TabName, Tab, i, "r")} IN
           /\ acc' = accs
           /\ \/ /\ i' = FailureLink(f)
                 /\ fb' = Count(fb)
                 /\ fbCall' = Count(fbCall)
                 /\ UNCHANGED <<pc, caller, P, P0, T, mayFail, heap, failure,
                                output, matches, returned, j, state, sP,
                                sfailure, pos, rets>>
              \/ Crashed(accs)

\* Lines 30-31 and j++: the fallback loop has ended.
KmpFailureStep ==
    /\ pc = "fail28"
    /\ j < m
    /\ \E p \in Rd("P", P, i + 1, GarbageChar) :
        /\ ~FailureMismatch(i, p, P[j])
        /\ LET i1 == FailureAdvance(i, p, P[j])
               accs == {Access("P", P, i + 1, "r"), Access("P", P, j, "r"),
                        Access(TabName, Tab, j, "w")} IN
           /\ acc' = accs
           /\ \/ /\ i' = i1
                 /\ SetTab(Wr(TabName, Tab, j, i1))
                 /\ j' = j + 1
                 /\ fbCall' = 0
                 /\ UNCHANGED <<pc, caller, P, P0, T, mayFail, heap, output,
                                matches, returned, state, sP, pos, rets, fb>>
              \/ Crashed(accs)

\* Line 28 with j >= m, line 33: return to the caller.
KmpFailureReturn ==
    /\ pc = "fail28"
    /\ j >= m
    /\ pc' = IF caller = "kmp_match" THEN "match55" ELSE "build106"
    /\ acc' = {}
    /\ UNCHANGED <<caller, P, P0, T, mayFail, heap, failure, output, matches,
                   returned, i, j, state, sP, sfailure, pos, rets, fb,
                   fbCall>>

----------------------------------------------------------------------------
\* kmp_match(T, n, P, m, output)

\* Lines 53-54: failure = malloc(m * sizeof(int)); kmp_failure(P, m, failure).
KmpMatchAlloc ==
    /\ pc = "match53"
    /\ \E r \in MallocResults :
        heap' = [heap EXCEPT !["failure"] = r]
    /\ failure' = Fresh(m)
    /\ caller' = "kmp_match"
    /\ pc' = "fail26"
    /\ acc' = {}
    /\ UNCHANGED <<P, P0, T, mayFail, output, matches, returned, i, j, state,
                   sP, sfailure, pos, rets, fb, fbCall>>

\* Lines 55-56: i = -1, matches = 0; j = 0.
KmpMatchInit ==
    /\ pc = "match55"
    /\ i' = -1
    /\ j' = 0
    /\ matches' = 0
    /\ pc' = "match56"
    /\ acc' = {}
    /\ fb' = 0
    /\ fbCall' = 0
    /\ UNCHANGED <<caller, P, P0, T, mayFail, heap, failure, output, returned,
                   state, sP, sfailure, pos, rets>>

\* Line 57, one iteration of the fallback loop: i = failure[i].
KmpMatchFallback ==
    /\ pc = "match56"
    /\ j < n
    /\ \E p \in Rd("P", P, i + 1, GarbageChar),
          f \in Rd("failure", failure, i, GarbageInt) :
        /\ MatchMismatch(i, p, T[j])
        /\ LET accs == {Access("P", P, i + 1, "r"), Access("T", T, j, "r"),
                        Access("failure", failure, i, "r")} IN
           /\ acc' = accs
           /\ \/ /\ i' = MatchLink(f)
                 /\ fb' = Count(fb)
                 /\ fbCall' = Count(fbCall)
                 /\ UNCHANGED <<pc, caller, P, P0, T, mayFail, heap, failure,
                                output, matches, returned, j, state, sP,
                                sfailure, pos, rets>>
              \/ Crashed(accs)

\* Lines 58-62 and j++: advance, and on a full match store the offset and
\* follow the failure link.
KmpMatchStep ==
    /\ pc = "match56"
    /\ j < n
    /\ \E p \in Rd("P", P, i + 1, GarbageChar) :
        /\ ~MatchMismatch(i, p, T[j])
        /\ LET i1 == MatchAdvance(i, p, T[j])
               cmp == {Access("P", P, i + 1, "r"), Access("T", T, j, "r")} IN
           IF MatchFound(i1, m)
           THEN \E f \in Rd("failure", failure, i1, GarbageInt) :
                  LET accs == cmp \cup
                              {Access("output", output, matches, "w"),
                               Access("failure", failure, i1, "r")} IN
                  /\ acc' = accs
                  /\ \/ /\ output' = Wr("output", output, matches,
                                        MatchOffset(j, m))
                        /\ matches' = matches + 1
                        /\ i' = MatchResume(f)
                        /\ j' = j + 1
                        /\ fbCall' = 0
                        /\ UNCHANGED <<pc, caller, P, P0, T, mayFail, heap,
                                       failure, returned, state, sP, sfailure,
                                       pos, rets, fb>>
                     \/ Crashed(accs)
           ELSE /\ acc' = cmp
                /\ \/ /\ i' = i1
                      /\ j' = j + 1
                      /\ fbCall' = 0
                      /\ UNCHANGED <<pc, caller, P, P0, T, mayFail, heap,
                                     failure, output, matches, returned,
                                     state, sP, sfailure, pos, rets, fb>>
                   \/ Crashed(cmp)

\* Line 56 with j >= n, lines 64-65: free(failure); return matches.  The
\* caller goes on to kmp_build.
KmpMatchReturn ==
    /\ pc = "match56"
    /\ j >= n
    /\ heap' = [heap EXCEPT !["failure"] = Freed(@)]
    /\ returned' = matches
    /\ pc' = "build99"
    /\ acc' = {}
    /\ UNCHANGED <<caller, P, P0, T, mayFail, failure, output, matches, i, j,
                   state, sP, sfailure, pos, rets, fb, fbCall>>

----------------------------------------------------------------------------
\* kmp_build(P, m)

\* Line 99: state = malloc(sizeof(struct kmp_state_t)).
KmpBuildAllocState ==
    /\ pc = "build99"
    /\ \E r \in MallocResults :
        heap' = [heap EXCEPT !["state"] = r]
    /\ state' = [k \in Fields |-> Undef]
    /\ pc' = "build100"
    /\ acc' = {}
    /\ UNCHANGED <<caller, P, P0, T, mayFail, failure, output, matches,
                   returned, i, j, sP, sfailure, pos, rets, fb, fbCall>>

\* Line 100 and the i = 0 of line 101: state->P = malloc(m * sizeof(char)).
KmpBuildAllocP ==
    /\ pc = "build100"
    /\ LET accs == {Access("state", state, FieldP, "w")} IN
       /\ acc' = accs
       /\ \/ /\ \E r \in MallocResults :
                  heap' = [heap EXCEPT !["sP"] = r]
             /\ sP' = Fresh(m)
             /\ state' = Wr("state", state, FieldP, Assigned)
             /\ i' = 0
             /\ pc' = "build101"
             /\ UNCHANGED <<caller, P, P0, T, mayFail, failure, output,
                            matches, returned, j, sfailure, pos, rets, fb,
                            fbCall>>
          \/ Crashed(accs)

\* Line 101, one iteration: state->P[i] = P[i]; i++.
KmpBuildCopy ==
    /\ pc = "build101"
    /\ i < m
    /\ LET accs == {Access("state", state, FieldP, "r"),
                    Access("P", P, i, "r"), Access("sP", sP, i, "w")} IN
       /\ acc' = accs
       /\ \/ /\ sP' = Wr("sP", sP, i, P[i])
             /\ i' = i + 1
             /\ UNCHANGED <<pc, caller, P, P0, T, mayFail, heap, failure,
                            output, matches, returned, j, state, sfailure,
                            pos, rets, fb, fbCall>>
          \/ Crashed(accs)

\* Line 101 with i >= m, lines 102-103: state->m = m; state->i = -1.
KmpBuildFields ==
    /\ pc = "build101"
    /\ i >= m
    /\ LET accs == {Access("state", state, FieldM, "w"),
                    Access("state", state, FieldI, "w")} IN
       /\ acc' = accs
       /\ \/ /\ state' = Wr("state", Wr("state", state, FieldM, m),
                            FieldI, -1)
             /\ pc' = "build104"
             /\ UNCHANGED <<caller, P, P0, T, mayFail, heap, failure, output,
                            matches, returned, i, j, sP, sfailure, pos, rets,
                            fb, fbCall>>
          \/ Crashed(accs)

\* Lines 104-105: state->failure = malloc(m * sizeof(int));
\* kmp_failure(P, m, state->failure).
KmpBuildAllocFailure ==
    /\ pc = "build104"
    /\ LET accs == {Access("state", state, FieldFailure, "w")} IN
       /\ acc' = accs
       /\ \/ /\ \E r \in MallocResults :
                  heap' = [heap EXCEPT !["sfailure"] = r]
             /\ sfailure' = Fresh(m)
             /\ state' = Wr("state", state, FieldFailure, Assigned)
             /\ caller' = "kmp_build"
             /\ pc' = "fail26"
             /\ UNCHANGED <<P, P0, T, mayFail, failure, output, matches,
                            returned, i, j, sP, pos, rets, fb, fbCall>>
          \/ Crashed(accs)

\* Line 106: return state.  The caller starts feeding the text at pos = 0.
KmpBuildReturn ==
    /\ pc = "build106"
    /\ pos' = 0
    /\ pc' = "feed"
    /\ acc' = {}
    /\ fb' = 0
    /\ fbCall' = 0
    /\ UNCHANGED <<caller, P, P0, T, mayFail, heap, failure, output, matches,
                   returned, i, j, state, sP, sfailure, rets>>

----------------------------------------------------------------------------
\* kmp_stream(state, T_j, j), called with T_j = T[pos] and j = pos

\* Line 122, P = state->P: kmp_stream compares against the copy kmp_build
\* made (lines 100-101), never against the buffer the caller passed.
StreamPatternAlias(copy, passed) == passed
StreamPattern(copy, passed) == copy

\* Line 131, state->i = i: the field of the state record kmp_stream stores
\* into.
StreamStoreFieldM == FieldM
StreamStoreField == FieldI

\* Lines 122-124: P = state->P; i = state->i; failure = state->failure.
KmpStreamEnter ==
    /\ pc = "feed"
    /\ pos < n
    /\ \E v \in Rd("state", state, FieldI, GarbageInt) :
        LET accs == {Access("state", state, FieldP, "r"),
                     Access("state", state, FieldI, "r"),
                     Access("state", state, FieldFailure, "r")} IN
        /\ acc' = accs
        /\ \/ /\ i' = v
              /\ j' = pos
              /\ pc' = "stream125"
              /\ fbCall' = 0
              /\ UNCHANGED <<caller, P, P0, T, mayFail, heap, failure, output,
                             matches, returned, state, sP, sfailure, pos,
                             rets, fb>>
           \/ Crashed(accs)

\* Line 125, one iteration of the fallback loop: i = failure[i].
KmpStreamFallback ==
    /\ pc = "stream125"
    /\ \E p \in Rd("sP", StreamPattern(sP, P), i + 1, GarbageChar),
          f \in Rd("sfailure", sfailure, i, GarbageInt) :
        /\ StreamMismatch(i, p, T[j])
        /\ LET accs == {Access("sP", sP, i + 1, "r"),
                        Access("sfailure", sfailure, i, "r")} IN
           /\ acc' = accs
           /\ \/ /\ i' = StreamLink(f)
                 /\ fb' = Count(fb)
                 /\ fbCall' = Count(fbCall)
                 /\ UNCHANGED <<pc, caller, P, P0, T, mayFail, heap, failure,
                                output, matches, returned, j, state, sP,
                                sfailure, pos, rets>>
              \/ Crashed(accs)

\* Lines 126-132: advance, on a full match return j and follow the failure
\* link, store i in state->i.  The caller records the value returned.
KmpStreamStep ==
    /\ pc = "stream125"
    /\ \E p \in Rd("sP", StreamPattern(sP, P), i + 1, GarbageChar),
          sm \in Rd("state", state, FieldM, GarbageLen) :
        /\ ~StreamMismatch(i, p, T[j])
        /\ LET i1 == StreamAdvance(i, p, T[j])
               cmp == {Access("sP", sP, i + 1, "r"),
                       Access("state", state, FieldM, "r"),
                       Access("state", state, StreamStoreField, "w")} IN
           IF StreamFound(i1, sm)
           THEN \E f \in Rd("sfailure", sfailure, i1, GarbageInt) :
                  LET accs == cmp \cup
                              {Access("sfailure", sfailure, i1, "r")} IN
                  /\ acc' = accs
                  /\ \/ /\ i' = StreamResume(f)
                        /\ state' = Wr("state", state, StreamStoreField,
                                       StreamResume(f))
                        /\ rets' = Append(rets, StreamResult(j))
                        /\ pos' = pos + 1
                        /\ pc' = "feed"
                        /\ UNCHANGED <<caller, P, P0, T, mayFail, heap,
                                       failure, output, matches, returned, j,
                                       sP, sfailure, fb, fbCall>>
                     \/ Crashed(accs)
           ELSE /\ acc' = cmp
                /\ \/ /\ i' = i1
                      /\ state' = Wr("state", state, StreamStoreField, i1)
                      /\ rets' = Append(rets, -1)
                      /\ pos' = pos + 1
                      /\ pc' = "feed"
                      /\ UNCHANGED <<caller, P, P0, T, mayFail, heap, failure,
                                     output, matches, returned, j, sP,
                                     sfailure, fb, fbCall>>
                   \/ Crashed(cmp)

----------------------------------------------------------------------------
\* kmp_free(state), called once the whole text was fed

\* The blocks kmp_free releases: state->failure (line 142), state->P
\* (line 143) and the state record (line 144).
KmpFreeBlocksLeak == {"sfailure", "state"}
KmpFreeBlocks == {"sfailure", "sP", "state"}

\* Lines 142-144: free(state->failure); free(state->P); free(state).
KmpFree ==
    /\ pc = "feed"
    /\ pos >= n
    /\ LET accs == {Access("state", state, FieldFailure, "r"),
                    Access("state", state, FieldP, "r")} IN
       /\ acc' = accs
       /\ \/ /\ heap' = [b \in Blocks |->
                          IF b \in KmpFreeBlocks THEN Freed(heap[b])
                          ELSE heap[b]]
             /\ pc' = "done"
             /\ UNCHANGED <<caller, P, P0, T, mayFail, failure, output,
                            matches, returned, i, j, state, sP, sfailure, pos,
                            rets, fb, fbCall>>
          \/ Crashed(accs)

----------------------------------------------------------------------------
\* The caller, between two calls on the matcher

\* The caller overwrites one symbol of the buffer it passed to kmp_build.
CallerMutateP ==
    /\ pc = "feed"
    /\ \E k \in 0..(m - 1), c \in Sigma :
        /\ P[k] # c
        /\ acc' = {Access("P", P, k, "w")}
        /\ P' = Wr("P", P, k, c)
        /\ UNCHANGED <<pc, caller, P0, T, mayFail, heap, failure, output,
                       matches, returned, i, j, state, sP, sfailure, pos,
                       rets, fb, fbCall>>

----------------------------------------------------------------------------
Next ==
    \/ KmpMatchAlloc
    \/ KmpFailureInit
    \/ KmpFailureFallback
    \/ KmpFailureStep
    \/ KmpFailureReturn
    \/ KmpMatchInit
    \/ KmpMatchFallback
    \/ KmpMatchStep
    \/ KmpMatchReturn
    \/ KmpBuildAllocState
    \/ KmpBuildAllocP
    \/ KmpBuildCopy
    \/ KmpBuildFields
    \/ KmpBuildAllocFailure
    \/ KmpBuildReturn
    \/ KmpStreamEnter
    \/ KmpStreamFallback
    \/ KmpStreamStep
    \/ KmpFree

\* Patterns of length m >= 1, every allocation succeeds.
Spec == Init /\ [][Next]_vars

\* Patterns of length m >= 0, every allocation succeeds.
SpecSmall == InitSmall /\ [][Next]_vars

\* Patterns of length m >= 1, allocations may fail.
SpecOOM == InitOOM /\ [][Next]_vars

\* The same, and the program keeps running: no call is suspended forever.
SpecFair == Spec /\ WF_vars(Next)

\* Patterns of length m >= 1, every allocation succeeds, and the caller may
\* overwrite its pattern buffer between the kmp_stream calls.
NextMutate == Next \/ CallerMutateP
SpecMutate == InitMutate /\ [][NextMutate]_vars

----------------------------------------------------------------------------
\* Reference definitions the claims are stated with

\* P occurs in T at offset o.
Occurs(o) ==
    /\ o \in 0..(n - m)
    /\ \A k \in 0..(m - 1) : T[o + k] = P[k]

\* The length of the longest proper prefix of P[0..k] that is also a suffix
\* of P[0..k], by brute force.
Border(k) ==
    LET lens == {len \in 0..k :
                   \A x \in 0..(len - 1) : P[x] = P[k - len + 1 + x]}
    IN CHOOSE len \in lens : \A other \in lens : other <= len

\* kmp_match has returned.
MatchReturned == returned # Undef

\* The offsets kmp_match returned: output[0 .. matches-1].
BatchOffsets == [k \in 1..returned |-> output[k - 1]]

\* The start offsets the stream has reported: r - m + 1 for every return
\* value r other than -1, in order.
StreamOffsets ==
    LET hits == SelectSeq(rets, LAMBDA r : r # -1)
    IN [k \in 1..Len(hits) |-> hits[k] - m + 1]

\* The whole text was fed to the stream.
StreamFed == pc \in {"feed", "done"} /\ Len(rets) = n

\* kmp_failure has filled the table in block b.
TableBuilt(b) == heap[b] = "live" /\ pc \notin {"fail26", "fail28"}

\* kmp_match is running or has just returned.
InKmpMatch == returned = Undef \/ pc = "build99"

\* The pattern pat occurs in T at offset o.
OccursIn(pat, o) ==
    /\ o \in 0..(n - Size(pat))
    /\ \A k \in 0..(Size(pat) - 1) : T[o + k] = pat[k]

\* The length of the longest proper prefix of pat[0..k] that is also a
\* suffix of pat[0..k], by brute force.
BorderOf(pat, k) ==
    LET lens == {len \in 0..k :
                   \A x \in 0..(len - 1) : pat[x] = pat[k - len + 1 + x]}
    IN CHOOSE len \in lens : \A other \in lens : other <= len

\* The matcher is built and not yet freed: between or inside kmp_stream
\* calls.
Streaming == pc \in {"feed", "stream125"}

\* The length of the longest prefix of P, of length less than m, that is a
\* suffix of the first k symbols of T, by brute force.
Progress(k) ==
    LET lens == {len \in 0..(m - 1) :
                   /\ len <= k
                   /\ \A x \in 0..(len - 1) : P[x] = T[k - len + x]}
    IN CHOOSE len \in lens : \A other \in lens : other <= len

\* The number of matches the kmp_stream calls have reported so far.
StreamHits == Cardinality({q \in 1..Len(rets) : rets[q] # -1})

----------------------------------------------------------------------------
\* Claims

\* C1: no false positives in batch matching.  Every offset kmp_match has
\* written to output lies in 0 .. n-m and P occurs in T there (m >= 1).
NoFalsePositives ==
    m >= 1 =>
        \A k \in DOMAIN output : output[k] # Undef => Occurs(output[k])

\* C1 witness: kmp_match has returned two offsets.
NoFalsePositivesWitness ==
    MatchReturned /\ m >= 2 /\ returned >= 2 /\ output[1] # Undef

\* C2: no false negatives in batch matching.  Once kmp_match has returned,
\* every offset at which P occurs in T is held by exactly one of the first
\* `matches` entries of output, overlapping occurrences included (m >= 1).
NoFalseNegatives ==
    (m >= 1 /\ MatchReturned) =>
        \A o \in 0..(n - m) :
            Occurs(o) =>
                Cardinality({k \in 0..(returned - 1) :
                               k \in DOMAIN output /\ output[k] = o}) = 1

\* C2 witness: kmp_match has returned on a text with two occurrences that
\* overlap.
NoFalseNegativesWitness ==
    /\ MatchReturned
    /\ \E o1, o2 \in 0..(n - m) :
        o1 < o2 /\ o2 < o1 + m /\ Occurs(o1) /\ Occurs(o2)

\* C3: batch/streaming equivalence.  Once the whole text was fed to the
\* stream in order, the values r - m + 1 of the returns r # -1 are exactly
\* the sequence of offsets kmp_match returned (m >= 1).
BatchStreamEquivalence ==
    (m >= 1 /\ StreamFed) => StreamOffsets = BatchOffsets

\* C3 witness: the whole text was fed and the stream reported two matches.
BatchStreamEquivalenceWitness ==
    m >= 2 /\ StreamFed /\ Len(StreamOffsets) >= 2

\* C4: the call kmp_stream(state, T[k], k) returns k exactly when
\* k >= m - 1 and T[k-m+1 .. k] = P, and -1 in every other case (m >= 1).
StreamReturnValue ==
    m >= 1 =>
        \A k \in 0..(Len(rets) - 1) :
            rets[k + 1] = IF k >= m - 1 /\ Occurs(k - m + 1) THEN k ELSE -1

\* C4 witness: the stream has returned a position and, later, -1.
StreamReturnValueWitness ==
    /\ m >= 2
    /\ \E k1, k2 \in 1..Len(rets) :
        k1 < k2 /\ rets[k1] # -1 /\ rets[k2] = -1

\* C5: failure table validity.  After kmp_failure, failure[0] = -1 and for
\* every k, failure[k] + 1 is the length of the longest proper prefix of
\* P[0..k] that is also a suffix of it (m >= 1), in kmp_match's table and in
\* the table of the stream state.
FailureTableValid ==
    m >= 1 =>
        /\ TableBuilt("failure") =>
              /\ failure[0] = -1
              /\ \A k \in 0..(m - 1) : failure[k] + 1 = Border(k)
        /\ TableBuilt("sfailure") =>
              /\ sfailure[0] = -1
              /\ \A k \in 0..(m - 1) : sfailure[k] + 1 = Border(k)

\* C5 witness: kmp_match's table is built and holds both a border of
\* length >= 2 and, after the first entry, an entry without any border.
FailureTableValidWitness ==
    /\ m >= 3
    /\ TableBuilt("failure")
    /\ \E k1, k2 \in 1..(m - 1) : failure[k1] >= 1 /\ failure[k2] = -1

\* C6: batch boundary cases.  With n < m (m >= 1) kmp_match returns 0 and
\* writes no entry of output.
ShortTextNoMatch ==
    (m >= 1 /\ n < m /\ InKmpMatch) =>
        /\ matches = 0
        /\ returned \in {Undef, 0}
        /\ \A a \in acc : a.obj # "output"

\* C6 witness: kmp_match has returned on a non-empty text one symbol
\* shorter than the pattern and equal to a prefix of it.
ShortTextNoMatchWitness ==
    /\ MatchReturned
    /\ n >= 1
    /\ n = m - 1
    /\ \A k \in 0..(n - 1) : T[k] = P[k]

\* C7: the empty pattern in batch matching.  With m = 0 kmp_match returns
\* 0, writes no entry of output and touches no element of the pattern or
\* of the failure table.
EmptyPatternNoAccess ==
    (m = 0 /\ InKmpMatch) =>
        /\ returned \in {Undef, 0}
        /\ \A a \in acc : a.obj \notin {"P", "failure", "output"}

\* C8: the overlap examples.  "aaa" in "aaaaaa" gives 4 matches, output
\* [0,1,2,3]; "abab" in "abababab" gives 3 matches, output [0,2,4].
OverlapExamples ==
    /\ (/\ MatchReturned
        /\ P = Str(<<97, 97, 97>>)
        /\ T = Str(<<97, 97, 97, 97, 97, 97>>))
         => returned = 4 /\ BatchOffsets = <<0, 1, 2, 3>>
    /\ (/\ MatchReturned
        /\ P = Str(<<97, 98, 97, 98>>)
        /\ T = Str(<<97, 98, 97, 98, 97, 98, 97, 98>>))
         => returned = 3 /\ BatchOffsets = <<0, 2, 4>>

\* C8 witness: kmp_match has returned on the second example.
OverlapExamplesWitness ==
    /\ MatchReturned
    /\ P = Str(<<97, 98, 97, 98>>)
    /\ T = Str(<<97, 98, 97, 98, 97, 98, 97, 98>>)

\* C9: the output buffer bound.  With n >= m >= 1, matches <= n - m + 1 at
\* every point of the scan and every write of output lands at an index in
\* 0 .. n-m.
OutputBound ==
    (m >= 1 /\ n >= m) =>
        /\ matches <= n - m + 1
        /\ \A a \in acc :
              a.obj = "output" =>
                  a.kind = "w" /\ a.idx \in 0..(n - m) /\ a.st = "ok"

\* C9 witness: the scan has just written the last entry of the buffer.
OutputBoundWitness ==
    /\ n > m
    /\ matches = n - m + 1
    /\ \E a \in acc : a.obj = "output" /\ a.idx = n - m

\* C10: allocation failure is propagated.  No step reads or writes through
\* storage that malloc did not provide (a block for which it returned NULL).
AllocFailurePropagated ==
    \A a \in acc : a.st # "null"

\* C11: pattern copy independence.  Whatever the caller writes to its
\* buffer P after kmp_build has returned, between any two kmp_stream calls,
\* the matcher's copy of the pattern and its failure table stay those of the
\* pattern passed to kmp_build, and every kmp_stream call so far has
\* returned what the unmodified pattern requires: j when it occurs in T
\* ending at j, -1 otherwise (m >= 1).
PatternCopyIndependence ==
    (m >= 1 /\ Streaming) =>
        /\ \A k \in 0..(m - 1) : sP[k] = P0[k]
        /\ \A k \in 0..(m - 1) : sfailure[k] = BorderOf(P0, k) - 1
        /\ \A q \in 1..Len(rets) :
              rets[q] = IF OccursIn(P0, q - m) THEN q - 1 ELSE -1

\* C11 witness: the caller has overwritten its buffer, and the last
\* kmp_stream call reported a match that the overwritten buffer does not
\* have at that position.
PatternCopyIndependenceWitness ==
    /\ pc = "feed"
    /\ P # P0
    /\ Len(rets) >= 2
    /\ rets[Len(rets)] = Len(rets) - 1
    /\ ~OccursIn(P, Len(rets) - m)

\* C12: destruction safety.  The state record, the pattern copy and the
\* failure table that kmp_build allocated are live between and inside all
\* kmp_stream calls, and once kmp_free has returned each of them has been
\* released exactly once: none is still live, none was released twice.
DestructionSafety ==
    /\ Streaming => \A b \in {"state", "sP", "sfailure"} : heap[b] = "live"
    /\ pc = "done" =>
          \A b \in {"state", "sP", "sfailure"} : heap[b] = "freed"

\* C12 witness: kmp_free has returned after three kmp_stream calls.
DestructionSafetyWitness ==
    pc = "done" /\ Len(rets) = 3 /\ heap["sP"] = "freed"

\* C13: ordering of results.  The offsets kmp_match has written to output
\* are strictly increasing, and the return values of the kmp_stream calls
\* that differ from -1 are strictly increasing in the order of the calls,
\* which feed the positions 0, 1, 2, ... (m >= 1).
ResultsOrdered ==
    m >= 1 =>
        /\ \A k1, k2 \in DOMAIN output :
              (k1 < k2 /\ output[k2] # Undef) =>
                  output[k1] # Undef /\ output[k1] < output[k2]
        /\ \A q1, q2 \in 1..Len(rets) :
              (q1 < q2 /\ rets[q1] # -1 /\ rets[q2] # -1) =>
                  rets[q1] < rets[q2]

\* C13 witness: kmp_match has returned three offsets and three kmp_stream
\* calls have returned a position.
ResultsOrderedWitness ==
    /\ MatchReturned /\ returned >= 3
    /\ Cardinality({q \in 1..Len(rets) : rets[q] # -1}) >= 3

FeedFrame ==
    [][(Streaming /\ pc' \in {"feed", "stream125"}) =>
          /\ sP' = sP
          /\ sfailure' = sfailure
          /\ \A f \in Fields \ {FieldI} : state'[f] = state[f]]_vars

\* C16 witness: three calls have returned and changed state->i.
FeedFrameWitness ==
    pc = "feed" /\ Len(rets) = 3 /\ state[FieldI] = 1 /\ state[FieldM] = m

\* C17: termination of the fallback loops.  In kmp_failure, kmp_match and
\* kmp_stream every iteration of the fallback loop `i = failure[i]` strictly
\* decreases i and keeps it at -1 or above, where the loop stops; a
\* kmp_stream call entered with progress index state->i has performed at
\* most state->i - i <= state->i + 1 iterations, and an outer iteration of
\* the other two loops at most m - 1; hence control never stays inside
\* kmp_stream or inside the loops of kmp_failure and kmp_match forever: every
\* call returns (m >= 1).
FallbackTerminates ==
    /\ [][fb' # fb /\ fb' # 0 => -1 <= i' /\ i' < i]_vars
    /\ [](pc = "stream125" =>
             fbCall <= state[FieldI] - i /\ fbCall <= state[FieldI] + 1)
    /\ [](pc \in {"fail28", "match56"} => fbCall <= m - 1)
    /\ [](pc \in {"fail28", "match56", "stream125"} /\ i = -1 =>
             ~ENABLED (KmpFailureFallback \/ KmpMatchFallback
                         \/ KmpStreamFallback))
    /\ []<>(pc \notin {"fail28", "match56", "stream125"})

\* C17 witness: a kmp_stream call entered with progress index 2 has fallen
\* back three times, to i = -1.
FallbackTerminatesWitness ==
    pc = "stream125" /\ state[FieldI] = 2 /\ fbCall = 3 /\ i = -1

\* C18: no backtracking over the text.  After any number k of kmp_stream
\* calls on a freshly built matcher, the fallback iterations executed in all
\* of them plus the matches reported are at most k; in kmp_match the
\* fallback iterations plus the matches stored are at most the number j of
\* text symbols scanned, and every step of its scan leaves j or adds one to
\* it (m >= 1).
NoBacktracking ==
    /\ [](m >= 1 =>
             /\ Streaming => fb + StreamHits <= Len(rets)
             /\ pc \in {"match56", "build99"} => fb + matches <= j)
    /\ [][pc = "match56" /\ pc' = "match56" => j' \in {j, j + 1}]_vars

\* C18 witness: the stream has made two fallback iterations and reported
\* two matches, one less in total than the calls made.
NoBacktrackingWitness ==
    /\ pc = "feed"
    /\ fb >= 2 /\ StreamHits >= 2
    /\ fb + StreamHits = Len(rets) - 1

\* C19: the empty pattern in table construction.  With m = 0 no step
\* writes an entry of a failure table, neither the table of kmp_match nor the
\* table of the matcher kmp_build makes: kmp_failure(P, 0, failure) yields
\* the empty table.
EmptyPatternNoTableWrite ==
    m = 0 =>
        \A a \in acc :
            ~(a.obj \in {"failure", "sfailure"} /\ a.kind = "w")

\* C20: index safety.  Every read of the pattern, P[i + 1] or P[j], made by
\* kmp_failure, kmp_match or kmp_stream has its index in 0 .. m-1; every
\* read failure[i] has 0 <= i <= m-1 and reads an entry that was written;
\* and in kmp_failure every read failure[i] made while failure[j] is being
\* computed has i < j (m >= 1).
IndexSafety ==
    m >= 1 =>
        \A a \in acc :
            /\ (a.obj \in {"P", "sP"} /\ a.kind = "r") =>
                  a.idx \in 0..(m - 1) /\ a.st = "ok"
            /\ (a.obj \in {"failure", "sfailure"} /\ a.kind = "r") =>
                  /\ a.idx \in 0..(m - 1)
                  /\ a.st = "ok"
                  /\ pc = "fail28" => a.idx < j

\* C20 witness: a fallback iteration of kmp_stream has read the last symbol
\* of the pattern copy and the failure entry before the last.
IndexSafetyWitness ==
    /\ pc = "stream125" /\ m >= 3
    /\ \E a \in acc : a.obj = "sP" /\ a.kind = "r" /\ a.idx = m - 1
    /\ \E a \in acc : a.obj = "sfailure" /\ a.kind = "r" /\ a.idx = m - 2

============================================================================
